---------------------------- MODULE Spec2Model ----------------------------
(***************************************************************************)
(* IGS census-tract service: the CSV ingestion of database.py (init_db)    *)
(* and the JWT-protected read API of main.py.                              *)
(*                                                                         *)
(* Text is modelled as sequences of one-character strings, so that         *)
(* split(".")[0], zfill(11), nh3.clean and float() are computed, not       *)
(* assumed.  Scores are whole numbers (the Float columns restricted to     *)
(* integer values).  The table census_tracts is the set of its rows; the   *)
(* surrogate key id and the row order of an un-ordered query are left out. *)
(***************************************************************************)
EXTENDS Integers, Sequences, FiniteSets, TLC

VARIABLES
    igs_data,        \* rows of igs_data.csv (<<>>: missing or header only)
    igs_data_extra,  \* rows of igs_data_extra.csv
    store,           \* committed rows of table census_tracts
    run,             \* the init_db call in progress, or Idle
    last_run,        \* what the last finished init_db call did (history)
    now,             \* clock, in minutes
    issued,          \* the token create_access_token signed last, with the
                     \* time and the call that signed it (history); {} if none
    request,         \* the API request being answered, or NoRequest
    response         \* its response, or NoResponse

vars == <<igs_data, igs_data_extra, store, run, last_run,
          now, issued, request, response>>

-----------------------------------------------------------------------------
(* Bounds of the model. *)

MaxRows == 2        \* rows in the two CSV files together, written row by row
MaxImportRows == 1  \* rows in the two CSV files together at a whole import
MaxTicks == 3       \* clock steps

-----------------------------------------------------------------------------
(* Text helpers. *)

Digits == <<"0", "1", "2", "3", "4", "5", "6", "7", "8", "9">>

IsDigit(c) == \E i \in 1..Len(Digits) : Digits[i] = c

DigitVal(c) == (CHOOSE i \in 1..Len(Digits) : Digits[i] = c) - 1

Zeros(n) == [i \in 1..n |-> "0"]

\* characters before the first occurrence of sep: s.split(sep)[0]
RECURSIVE split0(_, _)
split0(s, sep) ==
    IF s = <<>> \/ Head(s) = sep THEN <<>>
    ELSE <<Head(s)>> \o split0(Tail(s), sep)

\* str.zfill(width): pads on the left, after a leading sign, and never cuts
zfill(s, width) ==
    IF Len(s) >= width THEN s
    ELSE IF s # <<>> /\ Head(s) \in {"+", "-"}
         THEN <<Head(s)>> \o Zeros(width - Len(s)) \o Tail(s)
         ELSE Zeros(width - Len(s)) \o s

Amp == <<"&", "a", "m", "p", ";">>

\* nh3.clean on text without "<" and ">": a bare "&" is written as the
\* entity "&amp;", and an entity already written stays as it is.
RECURSIVE nh3_clean(_)
nh3_clean(s) ==
    IF s = <<>> THEN <<>>
    ELSE IF Head(s) = "&"
         THEN IF Len(s) >= Len(Amp) /\ SubSeq(s, 1, Len(Amp)) = Amp
              THEN Amp \o nh3_clean(SubSeq(s, Len(Amp) + 1, Len(s)))
              ELSE Amp \o nh3_clean(Tail(s))
         ELSE <<Head(s)>> \o nh3_clean(Tail(s))

\* value of a non-empty run of digits
RECURSIVE DigitsValue(_)
DigitsValue(s) ==
    IF s = <<>> THEN 0
    ELSE 10 * DigitsValue(SubSeq(s, 1, Len(s) - 1)) + DigitVal(s[Len(s)])

AllDigits(s) == s # <<>> /\ \A i \in 1..Len(s) : IsDigit(s[i])

Unsigned(s) == IF s # <<>> /\ Head(s) \in {"+", "-"} THEN Tail(s) ELSE s

\* float(cell) succeeds: [sign] digits (whole-number text)
float_ok(cell) == AllDigits(Unsigned(cell))

\* float(cell), for a cell float_ok accepts
float(cell) ==
    IF Head(cell) = "-" THEN 0 - DigitsValue(Unsigned(cell))
    ELSE DigitsValue(Unsigned(cell))

-----------------------------------------------------------------------------
(* The table and the CSV rows. *)

TractWidth == 11

ScoreFields == <<"inclusion_score", "growth_score",
                 "economy_score", "community_score">>

Row(id, a, b, c, d) ==
    [census_tract |-> id, inclusion_score |-> a, growth_score |-> b,
     economy_score |-> c, community_score |-> d]

Raw10 == <<"6", "0", "3", "7", "1", "0", "2", "1", "0", "7">>
Raw10Float == Raw10 \o <<".", "0">>
Raw11 == <<"0">> \o Raw10
Raw12 == <<"1", "2", "3", "4", "5", "6", "7", "8", "9", "0", "1", "2">>
RawAmp == <<"1", "&", "2">>
RawB == <<"6", "0", "3", "7", "1", "0", "2", "1", "0", "9">>

Tract107 == Raw11
TractB == <<"0">> \o RawB

\* the rows a CSV file may hold (as pandas hands them to the loop)
RowUniverse ==
    { Row(Raw10, <<"1", "0">>, <<"2", "0">>, <<"3", "0">>, <<"4", "0">>),
      Row(Raw10Float, <<"5", "0">>, <<"6", "0">>, <<"0">>, <<"1", "0", "0">>),
      Row(Raw11, <<"1", "0">>, <<"2", "0">>, <<"a", "b", "c">>, <<"4", "0">>),
      Row(Raw12, <<"1", "0">>, <<"2", "0">>, <<"3", "0">>, <<"4", "0">>),
      Row(RawB, <<"1", "0">>, <<"1", "5", "0">>, <<"-", "5">>, <<"4", "0">>),
      Row(RawAmp, <<"1", "0">>, <<"2", "0">>, <<"3", "0">>, <<"4", "0">>) }

SeqsUpTo(S, n) == UNION { [1..k -> S] : k \in 0..n }

TractIds(rows) == { r.census_tract : r \in rows }

\* census_tract = Column(String, unique=True): what the unique index accepts
unique_ok(rows) ==
    \A r1, r2 \in rows : r1.census_tract = r2.census_tract => r1 = r2

-----------------------------------------------------------------------------
(* init_db. *)

_load_csv(file) == file

\* lines 53-57: the extra frame is appended unless it is empty
combine(df_main, df_extra) ==
    IF df_extra # <<>> THEN df_main \o df_extra ELSE df_main

\* lines 70-79: the identifier init_db stores for a raw one
tract_id_clean(raw_id) ==
    nh3_clean(zfill(split0(raw_id, "."), TractWidth))

row_floats_ok(row) == \A i \in 1..Len(ScoreFields) : float_ok(row[ScoreFields[i]])

\* lines 87-93
CensusTract(id, row) ==
    [census_tract |-> id,
     inclusion_score |-> float(row.inclusion_score),
     growth_score |-> float(row.growth_score),
     economy_score |-> float(row.economy_score),
     community_score |-> float(row.community_score)]

\* lines 61-66: the session at the start of the loop
session_begin(st, df) ==
    [pc |-> "loop", combined_df |-> df, i |-> 1,
     existing_tracts |-> TractIds(st),
     seen_tracts |-> TractIds(st),
     new |-> <<>>, error |-> "none"]

\* the loop body without the membership test of line 82
loop_body_no_dedup(s, row) ==
    LET id == tract_id_clean(row.census_tract) IN
    IF ~row_floats_ok(row)
    THEN [s EXCEPT !.i = @ + 1, !.seen_tracts = @ \cup {id},
                   !.error = "ValueError"]
    ELSE [s EXCEPT !.i = @ + 1,
                   !.seen_tracts = @ \cup {id},
                   !.new = Append(@, CensusTract(id, row))]

\* the loop body with a later row replacing the record accumulated for its id
loop_body_last_wins(s, row) ==
    LET id == tract_id_clean(row.census_tract) IN
    IF id \in s.existing_tracts THEN [s EXCEPT !.i = @ + 1]
    ELSE IF ~row_floats_ok(row)
    THEN [s EXCEPT !.i = @ + 1, !.seen_tracts = @ \cup {id},
                   !.error = "ValueError"]
    ELSE [s EXCEPT !.i = @ + 1,
                   !.seen_tracts = @ \cup {id},
                   !.new = Append(SelectSeq(@, LAMBDA t : t.census_tract # id),
                                  CensusTract(id, row))]

\* lines 68-94: one iteration of the loop over combined_df
loop_body(s, row) ==
    LET id == tract_id_clean(row.census_tract) IN
    IF id \in s.seen_tracts THEN [s EXCEPT !.i = @ + 1]
    ELSE IF ~row_floats_ok(row)
    THEN [s EXCEPT !.i = @ + 1, !.seen_tracts = @ \cup {id},
                   !.error = "ValueError"]
    ELSE [s EXCEPT !.i = @ + 1,
                   !.seen_tracts = @ \cup {id},
                   !.new = Append(@, CensusTract(id, row))]

Range(f) == { f[i] : i \in DOMAIN f }

\* leaving the with-block by an exception, the accumulated rows written anyway
rollback_keeps_rows(st, new) == st \cup Range(new)

\* leaving the with-block by an exception: nothing of the session is written
rollback(st, new) == st

\* session.commit() as a reload that replaces the table
commit_replaces_table(st, new) == Range(new)

\* line 96: the accumulated rows are inserted in one transaction, which the
\* unique index on census_tract rejects as a whole
commit(st, new) ==
    IF unique_ok(st \cup Range(new)) /\ Cardinality(Range(new)) = Len(new)
    THEN st \cup Range(new)
    ELSE st

commit_status(st, new) ==
    IF unique_ok(st \cup Range(new)) /\ Cardinality(Range(new)) = Len(new)
    THEN "committed"
    ELSE "IntegrityError"

RECURSIVE loop(_)
loop(s) ==
    IF s.error # "none" \/ s.i > Len(s.combined_df) THEN s
    ELSE loop(loop_body(s, s.combined_df[s.i]))

\* a whole call of init_db on table st: the table afterwards
init_db(st, df_main, df_extra) ==
    LET s == loop(session_begin(st, combine(_load_csv(df_main), _load_csv(df_extra))))
    IN  IF s.error # "none" THEN rollback(st, s.new) ELSE commit(st, s.new)

-----------------------------------------------------------------------------
(* Initial state: empty database file, no CSV files, nothing signed. *)

Idle == [pc |-> "idle"]
NoRun == [status |-> "none"]
NoRequest == [op |-> "none"]
NoResponse == [status |-> 0]

Init ==
    /\ igs_data = <<>>
    /\ igs_data_extra = <<>>
    /\ store = {}
    /\ run = Idle
    /\ last_run = NoRun
    /\ now = 0
    /\ issued = {}
    /\ request = NoRequest
    /\ response = NoResponse

api_vars == <<now, issued, request, response>>

-----------------------------------------------------------------------------
(* The CSV files, written by whoever supplies the data. *)

WriteMain ==
    /\ run = Idle
    /\ Len(igs_data) + Len(igs_data_extra) < MaxRows
    /\ \E row \in RowUniverse : igs_data' = Append(igs_data, row)
    /\ last_run' = NoRun
    /\ UNCHANGED <<igs_data_extra, store, run, api_vars>>

WriteExtra ==
    /\ run = Idle
    /\ Len(igs_data) + Len(igs_data_extra) < MaxRows
    /\ \E row \in RowUniverse : igs_data_extra' = Append(igs_data_extra, row)
    /\ last_run' = NoRun
    /\ UNCHANGED <<igs_data, store, run, api_vars>>

RemoveMain ==
    /\ run = Idle
    /\ igs_data # <<>>
    /\ igs_data' = <<>>
    /\ last_run' = NoRun
    /\ UNCHANGED <<igs_data_extra, store, run, api_vars>>

RemoveExtra ==
    /\ run = Idle
    /\ igs_data_extra # <<>>
    /\ igs_data_extra' = <<>>
    /\ last_run' = NoRun
    /\ UNCHANGED <<igs_data, store, run, api_vars>>

-----------------------------------------------------------------------------
(* init_db, one step at a time. *)

\* lines 47-66: load, concatenate, open the session, read the existing ids
InitDbBegin ==
    /\ run = Idle
    /\ run' = session_begin(store, combine(_load_csv(igs_data),
                                           _load_csv(igs_data_extra)))
    /\ last_run' = NoRun
    /\ UNCHANGED <<igs_data, igs_data_extra, store, api_vars>>

\* lines 68-94: the next row of combined_df
InitDbRow ==
    /\ run.pc = "loop"
    /\ run.error = "none"
    /\ run.i <= Len(run.combined_df)
    /\ run' = loop_body(run, run.combined_df[run.i])
    /\ UNCHANGED <<igs_data, igs_data_extra, store, last_run, api_vars>>

\* float() raised: the exception leaves the with-block and init_db
InitDbRaise ==
    /\ run.pc = "loop"
    /\ run.error # "none"
    /\ store' = rollback(store, run.new)
    /\ last_run' = [status |-> run.error, before |-> store,
                    combined_df |-> run.combined_df, new |-> run.new]
    /\ run' = Idle
    /\ UNCHANGED <<igs_data, igs_data_extra, api_vars>>

\* line 96: session.commit()
InitDbCommit ==
    /\ run.pc = "loop"
    /\ run.error = "none"
    /\ run.i > Len(run.combined_df)
    /\ store' = commit(store, run.new)
    /\ last_run' = [status |-> commit_status(store, run.new), before |-> store,
                    combined_df |-> run.combined_df, new |-> run.new]
    /\ run' = Idle
    /\ UNCHANGED <<igs_data, igs_data_extra, api_vars>>

NextIngest ==
    \/ WriteMain
    \/ WriteExtra
    \/ RemoveMain
    \/ RemoveExtra
    \/ InitDbBegin
    \/ InitDbRow
    \/ InitDbRaise
    \/ InitDbCommit

SpecIngest == Init /\ [][NextIngest]_vars

-----------------------------------------------------------------------------
(* Claims about init_db, checked under SpecIngest. *)

Pending == IF run.pc = "loop" THEN run.new ELSE <<>>

\* C1: no two stored CensusTract records share a census_tract.  Stated in
\* its inductive form: the same holds of the stored records together with
\* the records the running session has accumulated for insertion.
C1_NoSharedTractId ==
    /\ \A r1, r2 \in store : r1.census_tract = r2.census_tract => r1 = r2
    /\ \A j, k \in 1..Len(Pending) :
          Pending[j].census_tract = Pending[k].census_tract => j = k
    /\ \A j \in 1..Len(Pending) :
          \A r \in store : r.census_tract # Pending[j].census_tract

\* a run that met the same identifier twice has committed, two tracts stored
C1_Witness ==
    /\ last_run.status = "committed"
    /\ Len(last_run.new) < Len(last_run.combined_df)
    /\ Cardinality(store) >= 2
    /\ Cardinality({ r.census_tract : r \in store }) = Cardinality(store)

NormIds(df) == { tract_id_clean(df[i].census_tract) : i \in 1..Len(df) }

FirstRow(df, id) ==
    df[CHOOSE i \in 1..Len(df) :
          /\ tract_id_clean(df[i].census_tract) = id
          /\ \A j \in 1..(i - 1) : tract_id_clean(df[j].census_tract) # id]

\* one record per identifier of the working set that the table lacks, with
\* the scores of the first row having that identifier
Expected(df, before) ==
    { [census_tract |-> id,
       inclusion_score |-> float(FirstRow(df, id).inclusion_score),
       growth_score |-> float(FirstRow(df, id).growth_score),
       economy_score |-> float(FirstRow(df, id).economy_score),
       community_score |-> float(FirstRow(df, id).community_score)] :
      id \in NormIds(df) \ { r.census_tract : r \in before } }

\* C2: a run that commits inserts exactly one record per normalized
\* identifier of the working set (primary rows, then supplementary rows)
\* that is not yet stored, each with the scores of the first row having
\* that identifier; a run whose identifiers are all stored inserts nothing.
C2_FirstRowWins ==
    last_run.status = "committed" =>
        /\ store = last_run.before \cup Expected(last_run.combined_df, last_run.before)
        /\ Len(last_run.new) = Cardinality(Expected(last_run.combined_df, last_run.before))
        /\ Expected(last_run.combined_df, last_run.before) \cap last_run.before = {}
        /\ (NormIds(last_run.combined_df) \subseteq { r.census_tract : r \in last_run.before }
              => store = last_run.before)

\* the table is what a run over these two rows, which share an identifier,
\* leaves in an empty table, and a further run over them inserted nothing
C2_Witness ==
    /\ last_run.status = "committed"
    /\ Len(last_run.combined_df) = 2
    /\ igs_data # <<>> /\ igs_data_extra # <<>>
    /\ last_run.new = <<>>
    /\ store = Expected(last_run.combined_df, {})
    /\ Cardinality(store) = 1

\* C6: a run that float() aborts leaves the table exactly as it was before
\* the run, without the rows accumulated before the failing row.
C6_AbortedRunWritesNothing ==
    last_run.status = "ValueError" => store = last_run.before

\* a run failed after a row had been accumulated for insertion
C6_Witness ==
    /\ last_run.status = "ValueError"
    /\ Len(last_run.new) > 0
    /\ \A j \in 1..Len(last_run.new) : last_run.new[j] \notin store

\* C7: every stored census_tract is exactly 11 characters long (stated of
\* the identifiers made of digits alone, which nh3.clean leaves as they are).
C7_StoredIdHasLength11 ==
    \A r \in store : AllDigits(r.census_tract) => Len(r.census_tract) = TractWidth

-----------------------------------------------------------------------------
(* main.py: credentials and tokens. *)

SECRET_KEY == "change-me-for-real-use"
ALGORITHM == "HS256"
ACCESS_TOKEN_EXPIRE_MINUTES == 30

\* pwd_context.hash / pwd_context.verify: a one-way digest of the password
pwd_hash(password) == <<"bcrypt", password>>

pwd_verify(password, hashed) == hashed = pwd_hash(password)

users_db ==
    [admin |-> [username |-> "admin",
                hashed_password |-> pwd_hash("securepassword123")]]

NoToken == [kind |-> "none"]
Garbage == [kind |-> "garbage"]

\* jwt.encode: the signature binds key, algorithm and claims
jwt_sign(claims, key, alg) == <<key, alg, claims>>

jwt_encode(claims, key, alg) ==
    [kind |-> "jws", alg |-> alg, payload |-> claims,
     sig |-> jwt_sign(claims, key, alg)]

\* a token whose expiry is the time of signing
create_access_token_no_lifetime(data, t) ==
    jwt_encode(("exp" :> t) @@ data, SECRET_KEY, ALGORITHM)

\* lines 57-62, called at time t
create_access_token(data, t) ==
    jwt_encode(("exp" :> t + ACCESS_TOKEN_EXPIRE_MINUTES) @@ data,
               SECRET_KEY, ALGORITHM)

JWTError == [error |-> TRUE, payload |-> <<>>]

\* jwt.decode(token, key, algorithms=[...]) at time t: format, algorithm,
\* signature, then the exp claim
jwt_decode(token, key, algorithms, t) ==
    IF token.kind # "jws" THEN JWTError
    ELSE IF token.alg \notin algorithms THEN JWTError
    ELSE IF token.sig # jwt_sign(token.payload, key, token.alg) THEN JWTError
    ELSE IF "exp" \in DOMAIN token.payload /\ token.payload.exp < t THEN JWTError
    ELSE [error |-> FALSE, payload |-> token.payload]

Unauthorized(detail) == [status |-> 401, detail |-> detail, username |-> ""]

\* get_current_user without the lookup of the subject in users_db
get_current_user_any_subject(token, t) ==
    IF token.kind = "none" THEN Unauthorized("Not authenticated")
    ELSE LET d == jwt_decode(token, SECRET_KEY, {ALGORITHM}, t) IN
         IF d.error THEN Unauthorized("Invalid authentication credentials")
         ELSE IF "sub" \notin DOMAIN d.payload
              THEN Unauthorized("Invalid authentication credentials")
              ELSE [status |-> 200, detail |-> "", username |-> d.payload.sub]

\* oauth2_scheme, then lines 65-81
get_current_user(token, t) ==
    IF token.kind = "none" THEN Unauthorized("Not authenticated")
    ELSE LET d == jwt_decode(token, SECRET_KEY, {ALGORITHM}, t) IN
         IF d.error THEN Unauthorized("Invalid authentication credentials")
         ELSE IF "sub" \notin DOMAIN d.payload
                 \/ d.payload.sub \notin DOMAIN users_db
              THEN Unauthorized("Invalid authentication credentials")
              ELSE [status |-> 200, detail |-> "", username |-> d.payload.sub]

-----------------------------------------------------------------------------
(* main.py: the handlers.  A response has all its fields, empty when unused. *)

Response(status, detail) ==
    [status |-> status, detail |-> detail, tracts |-> {}, username |-> "",
     access_token |-> NoToken, token_type |-> ""]

MaxLength == 11
ScoreGe == 0
ScoreLe == 100

\* CensusTractModel without ge and le on its scores
CensusTractModel_no_range(t) == Len(t.census_tract) <= MaxLength

\* lines 37-42: what CensusTractModel accepts
CensusTractModel(t) ==
    /\ Len(t.census_tract) <= MaxLength
    /\ \A i \in 1..Len(ScoreFields) :
          t[ScoreFields[i]] >= ScoreGe /\ t[ScoreFields[i]] <= ScoreLe

\* the object a handler builds from a row: the identifier cleaned again
tract_dict(t) == [t EXCEPT !.census_tract = nh3_clean(t.census_tract)]

\* login that accepts any password of a known user
login_any_password(username, password, t) ==
    IF username \notin DOMAIN users_db
    THEN Response(401, "Incorrect username or password")
    ELSE [Response(200, "") EXCEPT
            !.access_token = create_access_token([sub |-> username], t),
            !.token_type = "bearer"]

\* lines 84-96
login(username, password, t) ==
    IF username \notin DOMAIN users_db
       \/ ~pwd_verify(password, users_db[username].hashed_password)
    THEN Response(401, "Incorrect username or password")
    ELSE [Response(200, "") EXCEPT
            !.access_token = create_access_token([sub |-> username], t),
            !.token_type = "bearer"]

\* lines 99-117
get_tracts(token, t, st) ==
    LET user == get_current_user(token, t)
        models == { tract_dict(r) : r \in st }
    IN  IF user.status # 200 THEN Response(user.status, user.detail)
        ELSE IF \E m \in models : ~CensusTractModel(m)
             THEN Response(500, "Internal Server Error")
             ELSE [Response(200, "") EXCEPT !.tracts = models]

\* the query of lines 132-136 with the requested identifier zero-padded first
query_first_padded(st, census_tract) ==
    { r \in st : r.census_tract = zfill(census_tract, TractWidth) }

\* lines 132-136: the rows with exactly this identifier (at most one)
query_first(st, census_tract) ==
    { r \in st : r.census_tract = census_tract }

\* lines 120-151
get_single_tract(token, census_tract, t, st) ==
    LET user == get_current_user(token, t)
        found == query_first(st, census_tract)
    IN  IF user.status # 200 THEN Response(user.status, user.detail)
        ELSE IF found = {} THEN Response(404, "Census tract not found")
        ELSE LET m == tract_dict(CHOOSE r \in found : TRUE) IN
             IF ~CensusTractModel(m)
             THEN Response(500, "Internal Server Error")
             ELSE [Response(200, "") EXCEPT !.tracts = {m}]

\* lines 154-161
read_users_me(token, t) ==
    LET user == get_current_user(token, t) IN
    IF user.status # 200 THEN Response(user.status, user.detail)
    ELSE [Response(200, "") EXCEPT !.username = user.username]

-----------------------------------------------------------------------------
(* Requests. *)

Usernames == {"admin", "nope"}
Passwords == {"securepassword123", "letmein"}

EmptyData == [k \in {} |-> ""]

\* what create_access_token is called with: login's data, and the tests'
DataUniverse == { [sub |-> "admin"], [sub |-> "ghost"], EmptyData }

TickMinutes == ACCESS_TOKEN_EXPIRE_MINUTES \div 2

\* tokens nobody with the key has signed
Forged(t) ==
    LET claims == [sub |-> "admin", exp |-> t + ACCESS_TOKEN_EXPIRE_MINUTES] IN
    { [kind |-> "jws", alg |-> "none", payload |-> claims, sig |-> <<>>],
      jwt_encode(claims, "guessed-key", ALGORITHM) }

\* a signed token with its claims rewritten and its signature kept
Tampered(token, t) ==
    { [token EXCEPT !.payload =
          ("exp" :> t + ACCESS_TOKEN_EXPIRE_MINUTES) @@ token.payload],
      [token EXCEPT !.payload = ("sub" :> "admin") @@ token.payload] }
    \ {token}

Presentable ==
    {NoToken, Garbage} \cup Forged(now)
    \cup { e.token : e \in issued }
    \cup UNION { Tampered(e.token, now) : e \in issued }

RequestedIds == {Tract107, Raw10, TractB, Raw12}

Request(op, token, census_tract, username, password) ==
    [op |-> op, token |-> token, census_tract |-> census_tract,
     username |-> username, password |-> password]

-----------------------------------------------------------------------------
(* The service: one request at a time, the clock, and re-imports. *)

Tick ==
    /\ request = NoRequest
    /\ now < MaxTicks * TickMinutes
    /\ now' = now + TickMinutes
    /\ UNCHANGED <<igs_data, igs_data_extra, store, run, last_run,
                   issued, request, response>>

\* POST /token
Login ==
    /\ request = NoRequest
    /\ \E u \in Usernames, p \in Passwords :
         LET r == login(u, p, now) IN
         /\ request' = Request("login", NoToken, <<>>, u, p)
         /\ response' = r
         /\ issued' = IF r.status = 200
                       THEN {[token |-> r.access_token, iat |-> now,
                              by |-> "login", username |-> u, password |-> p]}
                       ELSE issued
    /\ UNCHANGED <<igs_data, igs_data_extra, store, run, last_run, now>>

\* create_access_token called directly, as the tests do
SignToken ==
    /\ request = NoRequest
    /\ \E data \in DataUniverse :
         issued' = {[token |-> create_access_token(data, now),
                     iat |-> now, by |-> "direct",
                     username |-> "", password |-> ""]}
    /\ UNCHANGED <<igs_data, igs_data_extra, store, run, last_run,
                   now, request, response>>

\* GET /tracts/
ListAll ==
    /\ request = NoRequest
    /\ \E token \in Presentable :
         /\ request' = Request("listAll", token, <<>>, "", "")
         /\ response' = get_tracts(token, now, store)
    /\ UNCHANGED <<igs_data, igs_data_extra, store, run, last_run, now, issued>>

\* GET /tracts/{census_tract}
GetOne ==
    /\ request = NoRequest
    /\ \E token \in Presentable, id \in RequestedIds :
         /\ request' = Request("getOne", token, id, "", "")
         /\ response' = get_single_tract(token, id, now, store)
    /\ UNCHANGED <<igs_data, igs_data_extra, store, run, last_run, now, issued>>

\* GET /users/me
WhoAmI ==
    /\ request = NoRequest
    /\ \E token \in Presentable :
         /\ request' = Request("whoAmI", token, <<>>, "", "")
         /\ response' = read_users_me(token, now)
    /\ UNCHANGED <<igs_data, igs_data_extra, store, run, last_run, now, issued>>

\* the response has gone out
Deliver ==
    /\ request # NoRequest
    /\ request' = NoRequest
    /\ response' = NoResponse
    /\ UNCHANGED <<igs_data, igs_data_extra, store, run, last_run, now, issued>>

\* some row carries an identifier the table has, with other scores
Conflict(st, df) ==
    \E i \in 1..Len(df) :
        /\ tract_id_clean(df[i].census_tract) \in TractIds(st)
        /\ row_floats_ok(df[i])
        /\ CensusTract(tract_id_clean(df[i].census_tract), df[i]) \notin st

\* a whole init_db call (import of database.py) over the CSV files as they
\* are at that moment
InitDb ==
    /\ request = NoRequest
    /\ \E df_main, df_extra \in SeqsUpTo(RowUniverse, MaxImportRows) :
         /\ Len(df_main) + Len(df_extra) <= MaxImportRows
         /\ store' = init_db(store, df_main, df_extra)
         /\ last_run' = [status |-> "imported",
                         conflict |-> Conflict(store, combine(df_main, df_extra))]
    /\ UNCHANGED <<igs_data, igs_data_extra, run, api_vars>>

Next ==
    \/ Tick
    \/ Login
    \/ SignToken
    \/ ListAll
    \/ GetOne
    \/ WhoAmI
    \/ Deliver
    \/ InitDb

Spec == Init /\ [][Next]_vars

-----------------------------------------------------------------------------
(* Claims about the API, checked under Spec. *)

KnownUsers == {"admin"}

\* a token as the claims describe a valid one: signed with the server's key
\* and algorithm, carrying a subject and an expiry, not past its expiry,
\* its subject a known username
TokenIsValid(token, t) ==
    /\ token.kind = "jws"
    /\ token.alg = ALGORITHM
    /\ token.sig = <<SECRET_KEY, ALGORITHM, token.payload>>
    /\ DOMAIN token.payload = {"sub", "exp"}
    /\ t <= token.payload.exp
    /\ token.payload.sub \in KnownUsers

Protected == {"listAll", "getOne", "whoAmI"}

ScoresInRange(t) ==
    /\ t.inclusion_score >= 0 /\ t.inclusion_score <= 100
    /\ t.growth_score >= 0 /\ t.growth_score <= 100
    /\ t.economy_score >= 0 /\ t.economy_score <= 100
    /\ t.community_score >= 0 /\ t.community_score <= 100

\* C3: listAll, getOne and whoAmI answer with success only to a token that
\* is validly signed, well formed, unexpired and of a known username; to
\* every other token, and to no token, they answer 401 without any data.
C3_ProtectedNeedValidToken ==
    request.op \in Protected =>
        /\ response.status = 200 => TokenIsValid(request.token, now)
        /\ ~TokenIsValid(request.token, now) =>
              /\ response.status = 401
              /\ response.tracts = {}
              /\ response.username = ""

\* a token signed by the server for a name that is no known username is
\* refused by listAll while the table holds records
C3_Witness ==
    /\ request.op = "listAll"
    /\ \E e \in issued : e.token = request.token /\ e.token.payload = ("exp" :> e.iat + 30) @@ [sub |-> "ghost"]
    /\ store # {}
    /\ response.status = 401
    /\ response.tracts = {}

\* C4: a token issued for a known username at time t expires at t plus the
\* configured lifetime; at every time up to that expiry get_current_user
\* and whoAmI return the username, at every later time they answer 401,
\* whatever the system has done in between.
C4_TokenLifecycle ==
    \A e \in issued :
        ("sub" \in DOMAIN e.token.payload /\ e.token.payload.sub \in KnownUsers) =>
            /\ e.token.payload.exp = e.iat + 30
            /\ now <= e.iat + 30 =>
                  /\ get_current_user(e.token, now).status = 200
                  /\ get_current_user(e.token, now).username = e.token.payload.sub
            /\ now > e.iat + 30 => get_current_user(e.token, now).status = 401
            /\ (request.op = "whoAmI" /\ request.token = e.token) =>
                  IF now <= e.iat + 30
                  THEN response.status = 200
                       /\ response.username = e.token.payload.sub
                  ELSE response.status = 401 /\ response.username = ""

\* a token that login issued is presented to whoAmI after its expiry
C4_Witness ==
    \E e \in issued :
        /\ e.by = "login"
        /\ now > e.iat + 30
        /\ request.op = "whoAmI"
        /\ request.token = e.token
        /\ response.status = 401

\* C5: login issues a bearer token exactly when the username is in the
\* credential mapping and the password matches its hash; otherwise it
\* issues nothing and answers the same 401 with the same detail.
C5_LoginIssuesOnlyOnMatch ==
    /\ request.op = "login" =>
          IF <<request.username, request.password>> = <<"admin", "securepassword123">>
          THEN /\ response.status = 200
               /\ response.token_type = "bearer"
               /\ \E e \in issued : e.token = response.access_token
               /\ response.access_token.payload.sub = request.username
          ELSE /\ response.status = 401
               /\ response.detail = "Incorrect username or password"
               /\ response.access_token = NoToken
               /\ response.token_type = ""
    /\ \A e \in issued :
          e.by = "login" => <<e.username, e.password>> = <<"admin", "securepassword123">>

\* the known username with a wrong password is refused
C5_Witness ==
    /\ request.op = "login"
    /\ request.username = "admin"
    /\ request.password # "securepassword123"
    /\ response.status = 401
    /\ response.detail = "Incorrect username or password"
    /\ issued = {}
    /\ store # {}

Matching == { r \in store : r.census_tract = request.census_tract }

\* C8 as claimed: with a valid token getOne returns the stored record with
\* the requested identifier whenever one is stored, and 404 otherwise.
C8_GetOneReturnsStoredRecord ==
    (request.op = "getOne" /\ TokenIsValid(request.token, now)) =>
        IF Matching = {}
        THEN response.status = 404
        ELSE /\ response.status = 200
             /\ response.tracts = Matching
             /\ \A m \in response.tracts : m.census_tract = request.census_tract

\* C8 as amended: the record is returned when it satisfies the response
\* model (identifier of at most 11 characters, scores within [0, 100]);
\* a stored record that does not is answered with a server error and no
\* data; an identifier no record has is answered 404.
C8_GetOneReturnsRecordOrFails ==
    (request.op = "getOne" /\ TokenIsValid(request.token, now)) =>
        IF Matching = {}
        THEN response.status = 404 /\ response.tracts = {}
        ELSE IF \A r \in Matching : Len(r.census_tract) <= 11 /\ ScoresInRange(r)
        THEN /\ response.status = 200
             /\ response.tracts = Matching
             /\ \A m \in response.tracts : m.census_tract = request.census_tract
        ELSE response.status = 500 /\ response.tracts = {}

\* a stored record is returned under the identifier asked for
C8_Witness ==
    /\ request.op = "getOne"
    /\ TokenIsValid(request.token, now)
    /\ request.census_tract = Tract107
    /\ response.status = 200
    /\ \E m \in response.tracts :
          m.census_tract = Tract107 /\ m \in store

\* C9: a stored record is never changed or removed: every step keeps every
\* stored record as it is, and a step that answers a request (login,
\* listAll, getOne, whoAmI) leaves the table as it was.
C9_StoredRecordsStay ==
    [][ /\ \A r \in store : r \in store'
        /\ (request = NoRequest /\ request' # NoRequest) => store' = store ]_vars

\* the last import carried other scores for a stored identifier, and the
\* table is then read: it still holds one record per identifier
C9_Witness ==
    /\ last_run.status = "imported"
    /\ last_run.conflict
    /\ \E r \in store : r.census_tract = Tract107
    /\ request.op = "getOne"
    /\ request.census_tract = Tract107
    /\ response.status = 200

\* C10: no tract object of a successful listAll or getOne response has a
\* score outside [0, 100]; a stored record with such a score makes the
\* response that would contain it fail.
C10_NoOutOfRangeScoreReturned ==
    request.op \in {"listAll", "getOne"} =>
        /\ response.status = 200 => \A m \in response.tracts : ScoresInRange(m)
        /\ (request.op = "listAll" /\ TokenIsValid(request.token, now)
              /\ \E r \in store : ~ScoresInRange(r))
             => response.status = 500 /\ response.tracts = {}
        /\ (request.op = "getOne" /\ TokenIsValid(request.token, now)
              /\ \E r \in Matching : ~ScoresInRange(r))
             => response.status = 500 /\ response.tracts = {}

\* ingestion has stored a record with a score above 100 and one below 0,
\* and listAll fails on it
C10_Witness ==
    /\ \E r \in store : r.growth_score > 100 /\ r.economy_score < 0
    /\ request.op = "listAll"
    /\ TokenIsValid(request.token, now)
    /\ response.status = 500

=============================================================================
